---------------------------- MODULE Spec2Model ----------------------------
(***************************************************************************)
(* Model of scripts/endgame_counts.py: the reference table, the logistic   *)
(* branching model, the grid-search fit, the report rows and the CSV       *)
(* export.                                                                 *)
(*                                                                         *)
(* Python floats are modelled as decimal floating-point numbers with a     *)
(* four-digit mantissa and the exponent range of binary64:                 *)
(*     [k |-> "fin", m |-> m, e |-> e]   is   (m / 1000) * 10^e            *)
(* with m = 0 (zero) or 1000 <= |m| <= 9999, so F(3776, 9) reads 3.776e9.  *)
(* k = "inf" (m = 1 or -1) and k = "nan" are the IEEE specials.  A raised  *)
(* Python exception is carried as a value whose k is the exception's name; *)
(* every operation passes on the first exception among its operands, as    *)
(* Python's left-to-right evaluation does.                                 *)
(***************************************************************************)
EXTENDS Integers, Sequences, FiniteSets, TLC

VARIABLES
    REFERENCE_COUNTS, \* the module-level table
    reference,        \* the dataset argument of the running call
    pc,               \* position of the driver
    ci,               \* position of the grid loops (flattened candidate index)
    logs_ref,         \* fit_parameters: logs of the reference values
    best,             \* fit_parameters: (error, params) of the best candidate so far
    errs,             \* history: the outcome of each candidate enumerated so far
    params,           \* what fit_parameters returned, None before
    exc,              \* the exception that ended the run, "" if none
    rows,             \* what render_table returned
    csv,              \* the lines save_csv wrote
    log,              \* history: (reference, returned params, exception) of every finished fit
    fn                \* a direct call of a model function: its arguments and result

vars == <<REFERENCE_COUNTS, reference, pc, ci, logs_ref, best, errs, params,
          exc, rows, csv, log, fn>>

----------------------------------------------------------------------------
(* Floats *)

F(m, e) == [k |-> "fin", m |-> m, e |-> e]
ZERO == F(0, 0)
ONE == F(1000, 0)
INF == [k |-> "inf", m |-> 1, e |-> 0]
NEG_INF == [k |-> "inf", m |-> -1, e |-> 0]
NAN == [k |-> "nan", m |-> 0, e |-> 0]
Raise(name) == [k |-> name, m |-> 0, e |-> 0]

Exceptions == {"OverflowError", "ValueError", "ZeroDivisionError"}
IsExc(x) == x.k \in Exceptions

Abs(n) == IF n < 0 THEN -n ELSE n
Sgn(n) == IF n < 0 THEN -1 ELSE IF n > 0 THEN 1 ELSE 0

Pow10Table == <<1, 10, 100, 1000, 10000, 100000, 1000000, 10000000,
                100000000, 1000000000>>
Pow10(n) == Pow10Table[n + 1]

\* The number of decimal digits of a > 0.
NumDigits(a) ==
    IF a < 10000
      THEN (IF a < 100 THEN (IF a < 10 THEN 1 ELSE 2)
            ELSE (IF a < 1000 THEN 3 ELSE 4))
      ELSE IF a < 10000000
        THEN (IF a < 100000 THEN 5 ELSE IF a < 1000000 THEN 6 ELSE 7)
        ELSE (IF a < 100000000 THEN 8 ELSE IF a < 1000000000 THEN 9 ELSE 10)

\* The float nearest to m * 10^x: rounding to four digits, overflow to an
\* infinity beyond the largest binary64 (1.797e308), underflow to zero below
\* the smallest (4.9e-324).
Round(m, x) ==
    IF m = 0 THEN ZERO
    ELSE LET a == Abs(m)
             d == NumDigits(a)
             sh == d - 4
             q == IF sh <= 0 THEN a * Pow10(-sh)
                  ELSE (a + Pow10(sh) \div 2) \div Pow10(sh)
             mm == IF q = 10000 THEN 1000 ELSE q
             e == IF q = 10000 THEN x + d ELSE x + d - 1
         IN  IF e > 308 \/ (e = 308 /\ mm > 1797)
               THEN (IF m > 0 THEN INF ELSE NEG_INF)
             ELSE IF e < -324 THEN ZERO
             ELSE F(Sgn(m) * mm, e)

\* float(n) of a Python int.
FromInt(n) == Round(n, 0)

Neg(a) == IF a.k \in {"fin", "inf"} THEN [a EXCEPT !.m = -a.m] ELSE a

Add(a, b) ==
    IF IsExc(a) THEN a
    ELSE IF IsExc(b) THEN b
    ELSE IF a.k = "nan" \/ b.k = "nan" THEN NAN
    ELSE IF a.k = "inf" THEN (IF b.k = "inf" /\ b.m # a.m THEN NAN ELSE a)
    ELSE IF b.k = "inf" THEN b
    ELSE IF a.m = 0 THEN b
    ELSE IF b.m = 0 THEN a
    ELSE IF a.e >= b.e
      THEN (IF a.e - b.e > 5 THEN a
            ELSE Round(a.m * Pow10(a.e - b.e) + b.m, b.e - 3))
      ELSE (IF b.e - a.e > 5 THEN b
            ELSE Round(b.m * Pow10(b.e - a.e) + a.m, a.e - 3))

Sub(a, b) == Add(a, Neg(b))

Mul(a, b) ==
    IF IsExc(a) THEN a
    ELSE IF IsExc(b) THEN b
    ELSE IF a.k = "nan" \/ b.k = "nan" THEN NAN
    ELSE IF a.k = "inf" \/ b.k = "inf"
      THEN (IF a.m = 0 \/ b.m = 0 THEN NAN
            ELSE IF Sgn(a.m) = Sgn(b.m) THEN INF ELSE NEG_INF)
    ELSE Round(a.m * b.m, a.e + b.e - 6)

\* a / b of two Python floats: ZeroDivisionError on a zero divisor.
Div(a, b) ==
    IF IsExc(a) THEN a
    ELSE IF IsExc(b) THEN b
    ELSE IF a.k = "nan" \/ b.k = "nan" THEN NAN
    ELSE IF b.k = "fin" /\ b.m = 0 THEN Raise("ZeroDivisionError")
    ELSE IF a.k = "inf"
      THEN (IF b.k = "inf" THEN NAN
            ELSE IF Sgn(a.m) = Sgn(b.m) THEN INF ELSE NEG_INF)
    ELSE IF b.k = "inf" THEN ZERO
    ELSE Round(Sgn(a.m) * Sgn(b.m) * ((Abs(a.m) * 100000) \div Abs(b.m)),
               a.e - b.e - 5)

FAbs(a) == IF a.k \in {"fin", "inf"} THEN [a EXCEPT !.m = Abs(a.m)] ELSE a

\* The order of two finite or infinite floats as an integer comparison:
\* the sign, then the exponent, then the mantissa.
Rank(a) ==
    IF a.k = "inf" THEN <<a.m, a.m * 400, 0>>
    ELSE <<Sgn(a.m), Sgn(a.m) * a.e, a.m>>

\* a < b; false when either is a NaN.
Less(a, b) ==
    /\ a.k \in {"fin", "inf"}
    /\ b.k \in {"fin", "inf"}
    /\ LET ra == Rank(a)
           rb == Rank(b)
       IN  \/ ra[1] < rb[1]
           \/ ra[1] = rb[1] /\ ra[1] # 0 /\ ra[2] < rb[2]
           \/ ra[1] = rb[1] /\ ra[1] # 0 /\ ra[2] = rb[2] /\ ra[3] < rb[3]

LessEq(a, b) ==
    /\ a.k \in {"fin", "inf"}
    /\ b.k \in {"fin", "inf"}
    /\ (a = b \/ Less(a, b))

\* np.isfinite
np_isfinite(a) == a.k = "fin"

----------------------------------------------------------------------------
(* math.exp and math.log *)

\* e^(r / 10^4) * 10^4 for 0 <= r < ln(10) * 10^4, by the power series.
RECURSIVE ExpSeries(_, _, _, _)
ExpSeries(t, n, r, acc) ==
    IF t = 0 THEN acc
    ELSE ExpSeries((t * r) \div (10000 * (n + 1)), n + 1, r, acc + t)

\* The float a in units of 10^-6, truncated toward zero (|a| < 1000).
Micro(a) ==
    IF a.e + 3 >= 0 THEN a.m * Pow10(a.e + 3)
    ELSE IF a.e + 3 < -9 THEN 0
    ELSE Sgn(a.m) * (Abs(a.m) \div Pow10(-(a.e + 3)))

\* math.exp: OverflowError ("math range error") above ln(max float) = 709.78,
\* 0.0 below ln(min float) = -745.13.
math_exp(a) ==
    IF IsExc(a) THEN a
    ELSE IF a.k = "nan" THEN NAN
    ELSE IF a.k = "inf" THEN (IF a.m > 0 THEN INF ELSE ZERO)
    ELSE IF Less(F(7097, 2), a) THEN Raise("OverflowError")
    ELSE IF Less(a, F(-7451, 2)) THEN ZERO
    ELSE LET x6 == Micro(a)
             q == x6 \div 2302585
             r4 == (x6 - q * 2302585) \div 100
         IN  Round(ExpSeries(10000, 0, r4, 0), q - 4)

\* math.log: ValueError ("math domain error") unless a > 0.
math_log(a) ==
    IF IsExc(a) THEN a
    ELSE IF a.k = "nan" THEN NAN
    ELSE IF a.m <= 0 THEN Raise("ValueError")
    ELSE IF a.k = "inf" THEN INF
    ELSE LET u0 == a.m * 1000
             h == IF u0 < 2000000 THEN 0
                  ELSE IF u0 < 4000000 THEN 1
                  ELSE IF u0 < 8000000 THEN 2 ELSE 3
             u == IF h = 0 THEN u0 ELSE IF h = 1 THEN u0 \div 2
                  ELSE IF h = 2 THEN u0 \div 4 ELSE u0 \div 8
             z == ((u - 1000000) * 1000) \div ((u + 1000000) \div 1000)
             z2 == ((z \div 100) * (z \div 100)) \div 100
             t3 == ((z \div 1000) * z2) \div 1000
             t5 == ((t3 \div 1000) * z2) \div 1000
             t7 == ((t5 \div 1000) * z2) \div 1000
         IN  Round(2 * (z + t3 \div 3 + t5 \div 5 + t7 \div 7)
                     + h * 693147 + a.e * 2302585, -6)


----------------------------------------------------------------------------
(* The reference table and the model *)

\* The table without its last row.
ReferenceTable_nine ==
    (5 :> F(3776, 9)) @@ (10 :> F(7304, 16)) @@ (15 :> F(1516, 23)) @@
    (20 :> F(7698, 28)) @@ (25 :> F(1424, 34)) @@ (30 :> F(1211, 39)) @@
    (35 :> F(5518, 43)) @@ (40 :> F(1497, 48)) @@ (45 :> F(2616, 52))

\* REFERENCE_COUNTS: full moves m -> published maximum, to four digits.
ReferenceTable ==
    (5 :> F(3776, 9)) @@ (10 :> F(7304, 16)) @@ (15 :> F(1516, 23)) @@
    (20 :> F(7698, 28)) @@ (25 :> F(1424, 34)) @@ (30 :> F(1211, 39)) @@
    (35 :> F(5518, 43)) @@ (40 :> F(1497, 48)) @@ (45 :> F(2616, 52)) @@
    (50 :> F(3124, 56))

plies(m_full_moves) == 2 * m_full_moves

\* sorted(reference.keys())
RECURSIVE SortedSeq(_)
SortedSeq(S) ==
    IF S = {} THEN << >>
    ELSE LET rest(lo) == <<lo>> \o SortedSeq(S \ {lo})
         IN  rest(CHOOSE x \in S : \A y \in S : x <= y)

sorted_keys(ref) == SortedSeq(DOMAIN ref)

logistic_g(i, L1, L2, i0, k) ==
    Add(L2, Div(Sub(L1, L2), Add(ONE, math_exp(Mul(k, Sub(FromInt(i), i0))))))

\* The floor of modeled_count, 1.0000001: the code needs a float above 1.0
\* whose log is positive; with four digits that is 1.001.
FLOOR_G == F(1001, 0)

\* The factor modeled_count multiplies in for ply i: logistic_g, raised to the
\* floor when it is <= 1.0.
branching_factor(i, L1, L2, i0, k) ==
    LET clamp(gi) == IF IsExc(gi) THEN gi
                     ELSE IF LessEq(gi, ONE) THEN FLOOR_G
                     ELSE gi
    IN  clamp(logistic_g(i, L1, L2, i0, k))

\* The loop of modeled_count over the plies lo..hi, s the sum before it; an
\* exception leaves the loop.  The plies are taken in order, lo..mid and then
\* mid+1..hi, which keeps the recursion shallow.
RECURSIVE log_sum(_, _, _, _, _, _, _)
log_sum(lo, hi, s, L1, L2, i0, k) ==
    IF lo > hi THEN s
    ELSE IF lo = hi
      THEN Add(s, math_log(branching_factor(lo, L1, L2, i0, k)))
    ELSE LET rest(mid, t) == IF IsExc(t) THEN t
                             ELSE log_sum(mid + 1, hi, t, L1, L2, i0, k)
         IN  rest((lo + hi) \div 2,
                  log_sum(lo, (lo + hi) \div 2, s, L1, L2, i0, k))

\* modeled_count with the loop started at ply 0: range(0, N + 1).
modeled_count_from_zero(N, L1, L2, i0, k) ==
    math_exp(log_sum(0, N, ZERO, L1, L2, i0, k))

modeled_count(N, L1, L2, i0, k) ==
    math_exp(log_sum(1, N, ZERO, L1, L2, i0, k))

----------------------------------------------------------------------------
(* The grid *)

\* Points per axis of the grid.  The program samples 13, 15, 21 and 12
\* points; the search is the same loop over fewer points of the same ranges.
N_L1 == 2
N_L2 == 2
N_i0 == 2
N_k == 2

\* np.linspace(start, stop, num), endpoint included.
np_linspace(start, stop, num) ==
    IF num = 1 THEN <<start>>
    ELSE LET step == Div(Sub(stop, start), FromInt(num - 1))
         IN  [j \in 1..num |->
                 IF j = num THEN stop
                 ELSE Add(Mul(FromInt(j - 1), step), start)]

\* The asymptote axis started at 1.0 instead of 2.0.
L2_grid_from_one == np_linspace(ONE, F(5500, 0), N_L2)

L1_grid == np_linspace(F(8000, 0), F(1400, 1), N_L1)
L2_grid == np_linspace(F(2000, 0), F(5500, 0), N_L2)
i0_grid == np_linspace(F(2000, 1), F(1200, 2), N_i0)
k_grid == np_linspace(F(1000, -2), F(1200, -1), N_k)

NCand == Len(L1_grid) * Len(L2_grid) * Len(i0_grid) * Len(k_grid)

\* The n-th tuple (L1, L2, i0, k) of the four nested loops, L1 outermost and k
\* innermost.
Cand(n) ==
    LET z == n - 1
        nk == Len(k_grid)
        ni == Len(i0_grid)
        n2 == Len(L2_grid)
    IN  << L1_grid[(z \div (nk * ni * n2)) + 1],
           L2_grid[((z \div (nk * ni)) % n2) + 1],
           i0_grid[((z \div nk) % ni) + 1],
           k_grid[(z % nk) + 1] >>

None == << >>

----------------------------------------------------------------------------
(* fit_parameters *)

\* The name of the first exception among the floats of a sequence, "" if none.
FirstExc(xs) ==
    IF \E j \in 1..Len(xs) : IsExc(xs[j])
      THEN xs[CHOOSE j \in 1..Len(xs) :
                  IsExc(xs[j]) /\ \A h \in 1..(j - 1) : ~IsExc(xs[h])].k
      ELSE ""

RECURSIVE SumFrom(_, _, _)
SumFrom(xs, j, acc) ==
    IF j > Len(xs) THEN acc ELSE SumFrom(xs, j + 1, Add(acc, xs[j]))

\* np.mean of a one-dimensional array; NaN for an empty one.
np_mean(xs) ==
    IF Len(xs) = 0 THEN NAN ELSE Div(SumFrom(xs, 1, ZERO), FromInt(Len(xs)))

\* Ns = [plies(m) for m in ms]
fit_Ns(ref) ==
    LET each(ms) == [j \in 1..Len(ms) |-> plies(ms[j])]
    IN  each(sorted_keys(ref))

\* logs_ref = [math.log(reference[m]) for m in ms]
fit_logs_ref(ref) ==
    LET each(ms) == [j \in 1..Len(ms) |-> math_log(ref[ms[j]])]
    IN  each(sorted_keys(ref))

\* best left as the previous call ended with it (a module-level best).
fit_begin_best_stale == best

\* best before the loops.
fit_begin_best == [se |-> INF, params |-> None]

\* The loop over Ns for one candidate c, from entry j on, acc the logs so far.
RECURSIVE logs_model_from(_, _, _, _)
logs_model_from(Ns, j, acc, c) ==
    IF j > Len(Ns) THEN [st |-> "scored", x |-> "", logs |-> acc]
    ELSE LET body(val) ==
                 IF IsExc(val) THEN [st |-> "raised", x |-> val.k, logs |-> acc]
                 ELSE IF ~np_isfinite(val) \/ LessEq(val, ZERO)
                   THEN [st |-> "infeasible", x |-> "", logs |-> acc]
                 ELSE logs_model_from(Ns, j + 1, Append(acc, math_log(val)), c)
         IN  body(modeled_count(Ns[j], c[1], c[2], c[3], c[4]))

\* se = float(np.mean((logs_model - logs_ref)**2))
squared_error(logs_model, lref) ==
    LET square(d) == Mul(d, d)
    IN  np_mean([j \in 1..Len(logs_model) |->
                    square(Sub(logs_model[j], lref[j]))])

\* One pass of the loop body for candidate c: skipped by "continue" when
\* L2 >= L1, infeasible when a modeled value is not finite and positive,
\* scored with its error otherwise; raised when an exception leaves the loop.
candidate_outcome(Ns, lref, c) ==
    IF LessEq(c[1], c[2]) THEN [st |-> "skipped", x |-> "", se |-> NAN]
    ELSE LET score(r) ==
                 IF r.st = "scored"
                   THEN [st |-> "scored", x |-> "",
                         se |-> squared_error(r.logs, lref)]
                   ELSE [st |-> r.st, x |-> r.x, se |-> NAN]
         IN  score(logs_model_from(Ns, 1, << >>, c))

\* if se <= best[0]: the last of several equal candidates is kept.
better_or_equal(se, best_se) == LessEq(se, best_se)

\* if se < best[0]
better(se, best_se) == Less(se, best_se)

\* The end of fit_parameters without the raise: the first tuple of the grid
\* stands in when no candidate was kept.
fit_result_placeholder(b) ==
    [exc |-> "",
     params |-> IF b.params = None
                  THEN <<L1_grid[1], L2_grid[1], i0_grid[1], k_grid[1]>>
                  ELSE b.params]

\* The end of fit_parameters: RuntimeError when no candidate was kept.
fit_result(b) ==
    IF b.params = None THEN [exc |-> "RuntimeError", params |-> None]
    ELSE [exc |-> "", params |-> b.params]

----------------------------------------------------------------------------
(* render_table and save_csv *)

\* render_table with the model column filled from the reference column.
render_table_copy(ref, p) ==
    LET row(m, N, r, mod) == <<m, N, r, mod, Div(FAbs(Sub(mod, r)), r)>>
        table(ms) ==
            [j \in 1..Len(ms) |->
                row(ms[j], plies(ms[j]), ref[ms[j]], ref[ms[j]])]
    IN  table(sorted_keys(ref))

\* One tuple (m, N, ref, mod, rel_err) per key, in sorted order.
render_table(ref, p) ==
    LET row(m, N, r, mod) == <<m, N, r, mod, Div(FAbs(Sub(mod, r)), r)>>
        table(ms) ==
            [j \in 1..Len(ms) |->
                row(ms[j], plies(ms[j]), ref[ms[j]],
                    modeled_count(plies(ms[j]), p[1], p[2], p[3], p[4]))]
    IN  table(sorted_keys(ref))

\* The exception render_table raises, "" if it returns: the first one in the
\* order the rows are built.
render_exc(rs) ==
    IF \E j \in 1..Len(rs) : IsExc(rs[j][4]) \/ IsExc(rs[j][5])
      THEN LET j == CHOOSE h \in 1..Len(rs) :
                      /\ IsExc(rs[h][4]) \/ IsExc(rs[h][5])
                      /\ \A g \in 1..(h - 1) : ~(IsExc(rs[g][4]) \/ IsExc(rs[g][5]))
           IN  IF IsExc(rs[j][4]) THEN rs[j][4].k ELSE rs[j][5].k
      ELSE ""

\* format(x, ".<prec>e"): sign, leading digit, prec fractional digits and
\* exponent, or the text of an infinity or a NaN.
FormatE(x, prec) ==
    IF x.k = "inf" THEN [sign |-> IF x.m < 0 THEN "-" ELSE "", text |-> "inf",
                         lead |-> 0, frac |-> << >>, exp |-> 0]
    ELSE IF x.k = "nan" THEN [sign |-> "", text |-> "nan",
                              lead |-> 0, frac |-> << >>, exp |-> 0]
    ELSE LET a == Abs(x.m)
         IN  [sign |-> IF x.m < 0 THEN "-" ELSE "", text |-> "",
              lead |-> a \div 1000,
              frac |-> [d \in 1..prec |->
                           IF d = 1 THEN (a \div 100) % 10
                           ELSE IF d = 2 THEN (a \div 10) % 10
                           ELSE IF d = 3 THEN a % 10
                           ELSE 0],
              exp |-> x.e]

\* The file save_csv writes: the header line, then one line per row.
save_csv(rs) ==
    [header |-> "full_moves,plies,reference_count,model_count,relative_error",
     lines |-> [j \in 1..Len(rs) |->
                   <<rs[j][1], rs[j][2], FormatE(rs[j][3], 12),
                     FormatE(rs[j][4], 12), FormatE(rs[j][5], 6)>>]]

----------------------------------------------------------------------------
(* The program: main() calls fit_parameters, render_table and save_csv on     *)
(* REFERENCE_COUNTS; the same three calls are also made on other datasets.   *)

\* Datasets fit_parameters is called on besides REFERENCE_COUNTS.
OtherDatasets ==
    { << >>,                                    \* no entry
      (5 :> F(3776, 9)),                        \* one entry of the table
      (25 :> F(1424, 34)),
      (5 :> F(1074, 9)),                        \* 8^10: met exactly by L1 = 8
      (50 :> F(3776, 9)),                       \* slow growth
      (250 :> F(1000, 200)),                    \* deep: some candidates overflow
      (5 :> F(3776, 9)) @@ (10 :> F(7304, 16)),
      (10 :> F(7304, 16)) @@ (5 :> ZERO),       \* a count that is not positive
      (5 :> INF) }

DatasetPool == {ReferenceTable} \cup OtherDatasets

NoCall == [op |-> "none", N |-> 0, L1 |-> ZERO, L2 |-> ZERO, i0 |-> ZERO,
           k |-> ZERO, ret |-> NAN, ret_next |-> NAN]
NoCsv == [header |-> "", lines |-> << >>]

\* Before the first call: the table is loaded, nothing has run.
InitWith(pool) ==
    /\ REFERENCE_COUNTS = ReferenceTable
    /\ reference \in pool
    /\ pc = "main"
    /\ ci = 0
    /\ logs_ref = << >>
    /\ best = [se |-> INF, params |-> None]
    /\ errs = << >>
    /\ params = None
    /\ exc = ""
    /\ rows = << >>
    /\ csv = NoCsv
    /\ log = << >>

Init == InitWith(DatasetPool) /\ fn = NoCall

\* An exception leaves the call: nothing is returned.
Raised(name) ==
    /\ pc' = "raised"
    /\ exc' = name
    /\ log' = Append(log, [reference |-> reference, params |-> None, exc |-> name])

\* fit_parameters up to the loops: the grids, ms, Ns, logs_ref and best.
FitBegin ==
    /\ pc = "main"
    /\ \E lr \in {fit_logs_ref(reference)} :
          IF FirstExc(lr) # ""
            THEN /\ Raised(FirstExc(lr))
                 /\ UNCHANGED <<ci, logs_ref, best, errs>>
            ELSE /\ pc' = "grid"
                 /\ logs_ref' = lr
                 /\ best' = fit_begin_best
                 /\ ci' = 1
                 /\ errs' = << >>
                 /\ UNCHANGED <<exc, log>>
    /\ UNCHANGED <<REFERENCE_COUNTS, reference, params, rows, csv, fn>>

\* One pass of the loop body, for the next tuple of the four nested loops.
FitCandidate ==
    /\ pc = "grid"
    /\ ci <= NCand
    /\ \E c \in {Cand(ci)} :
       \E r \in {candidate_outcome(fit_Ns(reference), logs_ref, c)} :
          IF r.st = "raised"
            THEN /\ Raised(r.x)
                 /\ UNCHANGED <<ci, best, errs>>
            ELSE /\ errs' = Append(errs, r)
                 /\ best' = IF r.st = "scored" /\ better(r.se, best.se)
                              THEN [se |-> r.se, params |-> c]
                              ELSE best
                 /\ ci' = ci + 1
                 /\ UNCHANGED <<pc, exc, log>>
    /\ UNCHANGED <<REFERENCE_COUNTS, reference, logs_ref, params, rows, csv, fn>>

\* After the loops: raise, or return best[1].
FitEnd ==
    /\ pc = "grid"
    /\ ci > NCand
    /\ \E r \in {fit_result(best)} :
          IF r.exc # ""
            THEN Raised(r.exc) /\ UNCHANGED params
            ELSE /\ pc' = "fitted"
                 /\ params' = r.params
                 /\ log' = Append(log, [reference |-> reference,
                                        params |-> r.params, exc |-> ""])
                 /\ UNCHANGED exc
    /\ UNCHANGED <<REFERENCE_COUNTS, reference, ci, logs_ref, best, errs, rows,
                   csv, fn>>

\* rows = render_table(reference, params)
Render ==
    /\ pc = "fitted"
    /\ \E rs \in {render_table(reference, params)} :
          IF render_exc(rs) # ""
            THEN /\ pc' = "raised"
                 /\ exc' = render_exc(rs)
                 /\ UNCHANGED rows
            ELSE /\ pc' = "rendered"
                 /\ rows' = rs
                 /\ UNCHANGED exc
    /\ UNCHANGED <<REFERENCE_COUNTS, reference, ci, logs_ref, best, errs, params,
                   csv, log, fn>>

\* save_csv(rows, args.write_csv)
Save ==
    /\ pc = "rendered"
    /\ pc' = "saved"
    /\ csv' = save_csv(rows)
    /\ UNCHANGED <<REFERENCE_COUNTS, reference, ci, logs_ref, best, errs, params,
                   exc, rows, log, fn>>

Next == FitBegin \/ FitCandidate \/ FitEnd \/ Render \/ Save

Spec == Init /\ [][Next]_vars

----------------------------------------------------------------------------
(* The model functions called directly *)

\* Largest ply count of a direct call.
MaxPly == 3

\* Arguments of the direct calls: parameters inside and outside the valid
\* range (L1 > L2 > 1, i0 > 0, k > 0), inflections before and after the
\* plies called, and slopes from the grid's range up to a steep 400.
L1_values == {F(8000, -1), F(3000, 0), F(1400, 1)}
L2_values == {F(5000, -1), F(2000, 0), F(5500, 0)}
i0_values == {ONE, F(2000, 1)}
k_values == {F(1000, -2), F(1200, -1), F(4000, 2)}

CallArgs ==
    [op : {"args"}, N : 0..MaxPly, L1 : L1_values, L2 : L2_values,
     i0 : i0_values, k : k_values, ret : {NAN}, ret_next : {NAN}]

valid_params(c) ==
    /\ Less(c.L2, c.L1)
    /\ Less(ONE, c.L2)
    /\ Less(ZERO, c.i0)
    /\ Less(ZERO, c.k)

InitModel == InitWith({ReferenceTable}) /\ fn \in CallArgs

\* The factor of ply fn.N inside modeled_count.
CallBranching ==
    /\ fn.op = "args"
    /\ fn.N >= 1
    /\ fn' = [fn EXCEPT !.op = "branching_factor",
                        !.ret = branching_factor(fn.N, fn.L1, fn.L2, fn.i0, fn.k)]
    /\ UNCHANGED <<REFERENCE_COUNTS, reference, pc, ci, logs_ref, best, errs,
                   params, exc, rows, csv, log>>

\* modeled_count(N, L1, L2, i0, k)
CallModeledCount ==
    /\ fn.op = "args"
    /\ fn' = [fn EXCEPT !.op = "modeled_count",
                        !.ret = modeled_count(fn.N, fn.L1, fn.L2, fn.i0, fn.k)]
    /\ UNCHANGED <<REFERENCE_COUNTS, reference, pc, ci, logs_ref, best, errs,
                   params, exc, rows, csv, log>>

\* modeled_count(N + 1, L1, L2, i0, k), after modeled_count(N, ...)
CallModeledCountNext ==
    /\ fn.op = "modeled_count"
    /\ fn' = [fn EXCEPT !.op = "modeled_count_next",
                        !.ret_next = modeled_count(fn.N + 1, fn.L1, fn.L2,
                                                   fn.i0, fn.k)]
    /\ UNCHANGED <<REFERENCE_COUNTS, reference, pc, ci, logs_ref, best, errs,
                   params, exc, rows, csv, log>>

NextModel == CallBranching \/ CallModeledCount \/ CallModeledCountNext

SpecModel == InitModel /\ [][NextModel]_vars

----------------------------------------------------------------------------
(* fit_parameters called again and again *)

\* Calls of fit_parameters in one process.
MaxRuns == 3

RerunPool ==
    { (5 :> F(3776, 9)), (50 :> F(3776, 9)), << >> }

InitRerun == InitWith(RerunPool) /\ fn = NoCall

\* The next call: a new frame; what the locals of the finished call hold is
\* whatever FitBegin does not assign.
Again ==
    /\ pc \in {"fitted", "raised"}
    /\ Len(log) < MaxRuns
    /\ pc' = "main"
    /\ reference' \in RerunPool
    /\ params' = None
    /\ exc' = ""
    /\ UNCHANGED <<REFERENCE_COUNTS, ci, logs_ref, best, errs, rows, csv, log, fn>>

NextRerun == FitBegin \/ FitCandidate \/ FitEnd \/ Again

SpecRerun == InitRerun /\ [][NextRerun]_vars

----------------------------------------------------------------------------
(* Properties *)

\* fit_parameters has returned a tuple.
Returned == pc \in {"fitted", "rendered", "saved"}

\* C1: the tuple fit_parameters returns is a scored candidate of the grid
\* whose error is no larger than that of every scored candidate, and every
\* scored candidate enumerated before it (L1 outermost, k innermost) has a
\* strictly larger error.
C1_FirstMinimumWins ==
    Returned =>
        \E n \in 1..NCand :
            /\ Cand(n) = params
            /\ errs[n].st = "scored"
            /\ \A j \in 1..NCand :
                   errs[j].st = "scored" => LessEq(errs[n].se, errs[j].se)
            /\ \A j \in 1..(n - 1) :
                   errs[j].st = "scored" => Less(errs[n].se, errs[j].se)

\* A fit where two candidates share the minimum error and the earlier one
\* is returned.
C1_TieReturned ==
    /\ pc = "fitted"
    /\ \E n, j \in 1..NCand :
          /\ n < j
          /\ Cand(n) = params
          /\ errs[n].st = "scored"
          /\ errs[j].st = "scored"
          /\ errs[j].se = errs[n].se

\* C2: whenever fit_parameters returns, the returned tuple has L2 < L1,
\* L1 > 1 and L2 > 1, whatever the reference dataset.
C2_ReturnedOrdered ==
    Returned =>
        /\ Less(params[2], params[1])
        /\ Less(ONE, params[1])
        /\ Less(ONE, params[2])

\* A fit that returns the largest asymptote of the grid.
C2_ReturnedLargestL2 ==
    /\ pc = "fitted"
    /\ params[2] = L2_grid[Len(L2_grid)]
    /\ Cardinality(DOMAIN reference) = 2

\* C3: when the grid is exhausted and no candidate had a finite error,
\* fit_parameters raises RuntimeError and returns no tuple; a tuple is
\* returned only if it is a candidate with a finite error; a call that
\* raised returned nothing.
C3_AllOrNothing ==
    LET feasible(j) == errs[j].st = "scored" /\ Less(errs[j].se, INF)
    IN  /\ (ci > NCand /\ pc # "grid" /\ \A j \in 1..NCand : ~feasible(j))
              => (pc = "raised" /\ exc = "RuntimeError" /\ params = None)
        /\ params # None
              => \E j \in 1..NCand : feasible(j) /\ Cand(j) = params
        /\ \A a \in 1..Len(log) : log[a].exc # "" => log[a].params = None

\* A fit that went through the whole grid, every candidate scored with an
\* error that is not finite, and failed.
C3_GridExhausted ==
    /\ pc = "raised"
    /\ exc = "RuntimeError"
    /\ ci > NCand
    /\ \E j \in 1..NCand : errs[j].st = "scored"
    /\ params = None

\* C4: for valid parameters (L1 > L2 > 1, i0 > 0, k > 0) and every N >= 0,
\* modeled_count(N) returns a finite positive number and
\* modeled_count(N + 1) returns a larger one.
C4_ModeledCountIncreasing ==
    (fn.op = "modeled_count_next" /\ valid_params(fn)) =>
        /\ ~IsExc(fn.ret)
        /\ ~IsExc(fn.ret_next)
        /\ np_isfinite(fn.ret)
        /\ np_isfinite(fn.ret_next)
        /\ Less(ZERO, fn.ret)
        /\ Less(fn.ret, fn.ret_next)

\* C5: the per-ply factor is a number above 1 for every ply i >= 1, whatever
\* the parameters: a value <= 1 is raised to the floor, and no error is
\* raised.
C5_BranchingAboveOne ==
    (fn.op = "branching_factor" /\ fn.N >= 1) =>
        /\ ~IsExc(fn.ret)
        /\ Less(ONE, fn.ret)

\* C6: render_table returns one row per entry of the reference, in strictly
\* ascending full-move order, each with plies = 2 * full_moves, the
\* reference count of that entry unchanged, and the model count computed by
\* modeled_count from the plies and the parameters.
C6_ReportRows ==
    pc \in {"rendered", "saved"} =>
        /\ Len(rows) = Cardinality(DOMAIN reference)
        /\ {rows[j][1] : j \in 1..Len(rows)} = DOMAIN reference
        /\ \A j \in 1..(Len(rows) - 1) : rows[j][1] < rows[j + 1][1]
        /\ \A j \in 1..Len(rows) :
              /\ rows[j][2] = 2 * rows[j][1]
              /\ rows[j][3] = reference[rows[j][1]]
              /\ rows[j][4] = modeled_count(rows[j][2], params[1], params[2],
                                            params[3], params[4])

\* The report of the published table: ten rows, the fifth the row of 25
\* full moves with its published count, and a model count that differs.
C6_ReportOfTable ==
    /\ pc = "rendered"
    /\ Len(rows) = 10
    /\ rows[5][1] = 25
    /\ rows[5][2] = 50
    /\ rows[5][3] = F(1424, 34)
    /\ rows[5][4] # rows[5][3]

\* C7: in every state REFERENCE_COUNTS holds exactly ten entries, keyed
\* 5, 10, ..., 50, each with a positive count, and no step changes it.
C7_TableFixed ==
    /\ [](/\ DOMAIN REFERENCE_COUNTS = {5 * j : j \in 1..10}
          /\ Cardinality(DOMAIN REFERENCE_COUNTS) = 10
          /\ \A m \in DOMAIN REFERENCE_COUNTS : Less(ZERO, REFERENCE_COUNTS[m]))
    /\ [][REFERENCE_COUNTS' = REFERENCE_COUNTS]_vars

\* The table after a fit, a report and an export on it.
C7_AfterExport ==
    /\ pc = "saved"
    /\ reference = REFERENCE_COUNTS
    /\ Len(csv.lines) = 10

\* C8: fit_parameters on a dataset of exactly one entry with a finite
\* positive count does not raise.
C8_SingleEntryFits ==
    (/\ Cardinality(DOMAIN reference) = 1
     /\ \A m \in DOMAIN reference :
           np_isfinite(reference[m]) /\ Less(ZERO, reference[m]))
        => pc # "raised"

\* C9: two calls of fit_parameters on the same reference end the same way:
\* the same tuple returned, or the same exception raised.
C9_FitDeterministic ==
    \A a, b \in 1..Len(log) :
        log[a].reference = log[b].reference =>
            /\ log[a].params = log[b].params
            /\ log[a].exc = log[b].exc

\* Three calls: the first and the third on the same dataset, which has a
\* fit, with a call on another dataset that has a fit in between.
C9_SameDatasetAgain ==
    /\ Len(log) = 3
    /\ log[1].reference = log[3].reference
    /\ log[2].reference # log[1].reference
    /\ log[1].params # None
    /\ log[2].params # None

\* C10: modeled_count(0, ...) returns 1.0 for valid parameters.
C10_EmptyProduct ==
    (fn.op = "modeled_count" /\ fn.N = 0 /\ valid_params(fn)) => fn.ret = ONE

\* A call of modeled_count with N = 0 and valid parameters has returned.
C10_ZeroPliesCalled ==
    /\ fn.op = "modeled_count"
    /\ fn.N = 0
    /\ valid_params(fn)
    /\ ~IsExc(fn.ret)

============================================================================
